---- MODULE Spec2Model ----
(***************************************************************************)
(* Model of the melbudget bank-statement importer:                         *)
(*   src/utils/csv_processor.py  CSVProcessor (clean_decimal, process_csv, *)
(*                               get_processed_files, load_all_transactions)*)
(*   src/app.py                  the routes home, upload, process_csv      *)
(*   src/models.py               TransactionType, Transaction, summaries   *)
(*                                                                         *)
(* Text is a sequence of one-character strings.  A DataFrame cell is       *)
(* either text or NA (pandas' NaN for a blank cell).                       *)
(***************************************************************************)
EXTENDS Integers, Sequences, FiniteSets, TLC

VARIABLES
    uploads,     \* the upload directory: file name -> the file and the frame read from it, or NoFile
    mtime,       \* st_mtime of each file in the upload directory
    clock,       \* the file system's clock (number of saves so far)
    cachedData,  \* CSVProcessor._cached_data: file name -> list of Transaction
    result,      \* what the last call of CSVProcessor.process_csv returned
    log,         \* what the last call of CSVProcessor.process_csv logged
    session,     \* session['dashboard_data'], or NoData
    response,    \* the last route's response
    decIn,       \* the argument of the last clean_decimal call
    decOut       \* what the last clean_decimal call returned

vars == <<uploads, mtime, clock, cachedData, result, log, session, response, decIn, decOut>>

(***************************************************************************)
(* Bounds of the model.                                                    *)
(***************************************************************************)
MaxLen == 4      \* longest raw text handed to clean_decimal on its own
MaxRows == 2     \* most rows of a generated CSV file
MaxClock == 3    \* most saves into the upload directory

(***************************************************************************)
(* Text helpers (Python str methods).                                      *)
(***************************************************************************)
NA == <<"<NA>">>

Digits == {"0", "1", "2", "3", "4", "5", "6", "7", "8", "9"}

DigitVal(c) ==
    CASE c = "0" -> 0 [] c = "1" -> 1 [] c = "2" -> 2 [] c = "3" -> 3
      [] c = "4" -> 4 [] c = "5" -> 5 [] c = "6" -> 6 [] c = "7" -> 7
      [] c = "8" -> 8 [] c = "9" -> 9

\* pd.isna(value) / not pd.notna(value)
IsNa(cell) == cell = NA

\* str(value): a NaN cell prints as "nan", text is itself
Str(cell) == IF IsNa(cell) THEN <<"n", "a", "n">> ELSE cell

\* s.replace(ch, '')
Remove(s, ch) == SelectSeq(s, LAMBDA c : c # ch)

RECURSIVE LStrip(_)
LStrip(s) == IF Len(s) > 0 /\ s[1] = " " THEN LStrip(Tail(s)) ELSE s

RECURSIVE RStrip(_)
RStrip(s) == IF Len(s) > 0 /\ s[Len(s)] = " " THEN RStrip(SubSeq(s, 1, Len(s) - 1)) ELSE s

\* s.strip()
Strip(s) == RStrip(LStrip(s))

StartsWith(s, c) == Len(s) > 0 /\ s[1] = c

EndsWith(s, c) == Len(s) > 0 /\ s[Len(s)] = c

UpperChar(c) ==
    CASE c = "a" -> "A" [] c = "b" -> "B" [] c = "c" -> "C" [] c = "d" -> "D"
      [] c = "e" -> "E" [] c = "f" -> "F" [] c = "h" -> "H" [] c = "i" -> "I"
      [] c = "k" -> "K" [] c = "l" -> "L" [] c = "n" -> "N" [] c = "o" -> "O"
      [] c = "p" -> "P" [] c = "r" -> "R" [] c = "s" -> "S" [] c = "t" -> "T"
      [] c = "y" -> "Y" [] c = "x" -> "X" [] c = "g" -> "G" [] c = "j" -> "J"
      [] c = "m" -> "M" [] c = "q" -> "Q" [] c = "u" -> "U" [] c = "v" -> "V"
      [] c = "w" -> "W" [] c = "z" -> "Z"
      [] OTHER -> c

\* s.upper()
Upper(s) == [i \in 1..Len(s) |-> UpperChar(s[i])]

\* sub in s
Contains(s, sub) ==
    \E i \in 1..(Len(s) - Len(sub) + 1) : SubSeq(s, i, i + Len(sub) - 1) = sub

(***************************************************************************)
(* decimal.Decimal.  A finite value is kept as coef * 10^(-exp) in lowest  *)
(* terms (Decimal compares numerically: Decimal('12.00') == Decimal('12')),*)
(* so equal values are equal records.                                      *)
(***************************************************************************)
RECURSIVE Norm(_, _)
Norm(c, e) ==
    IF c = 0 THEN [kind |-> "fin", coef |-> 0, exp |-> 0]
    ELSE IF e > 0 /\ c % 10 = 0 THEN Norm(c \div 10, e - 1)
    ELSE [kind |-> "fin", coef |-> c, exp |-> e]

Zero == Norm(0, 0)

Invalid == [kind |-> "invalid"]

RECURSIVE DigitsValue(_)
DigitsValue(ds) ==
    IF Len(ds) = 0 THEN 0
    ELSE 10 * DigitsValue(SubSeq(ds, 1, Len(ds) - 1)) + DigitVal(ds[Len(ds)])

\* position of the first '.', or 0
RECURSIVE DotAt(_, _)
DotAt(s, i) == IF i > Len(s) THEN 0 ELSE IF s[i] = "." THEN i ELSE DotAt(s, i + 1)

\* Decimal(text): the constructor's grammar, sign? (digits with at most one
\* '.') or a special value; Invalid stands for raising InvalidOperation.
DecimalOf(text) ==
    LET s == Strip(text)
        signed == Len(s) > 0 /\ s[1] \in {"-", "+"}
        neg == Len(s) > 0 /\ s[1] = "-"
        body == IF signed THEN Tail(s) ELSE s
        up == Upper(body)
        ds == SelectSeq(body, LAMBDA c : c \in Digits)
        dots == Len(SelectSeq(body, LAMBDA c : c = "."))
        dot == DotAt(body, 1)
        mag == DigitsValue(ds)
    IN  IF up \in {<<"N", "A", "N">>, <<"S", "N", "A", "N">>}
            THEN [kind |-> "nan"]
        ELSE IF up \in {<<"I", "N", "F">>, <<"I", "N", "F", "I", "N", "I", "T", "Y">>}
            THEN [kind |-> "inf", neg |-> neg]
        ELSE IF /\ \A i \in 1..Len(body) : body[i] \in Digits \cup {"."}
                /\ dots <= 1
                /\ Len(ds) >= 1
            THEN Norm(IF neg THEN 0 - mag ELSE mag,
                      IF dot = 0 THEN 0 ELSE Len(body) - dot)
        ELSE Invalid

\* CSVProcessor.clean_decimal
clean_decimal(value) ==
    IF IsNa(value) THEN Zero
    ELSE LET stripped == Strip(Remove(Remove(Str(value), "$"), ","))
             cleaned == IF StartsWith(stripped, "(") /\ EndsWith(stripped, ")")
                        THEN <<"-">> \o SubSeq(stripped, 2, Len(stripped) - 1)
                        ELSE stripped
             d == DecimalOf(cleaned)
         IN  IF d = Invalid THEN Zero ELSE d

(***************************************************************************)
(* Dates.  A datetime is kept as its calendar date [y, m, d]; NoDate       *)
(* stands for the parser raising.                                          *)
(***************************************************************************)
NoDate == [y |-> 0, m |-> 0, d |-> 0]

AllDigits(s) == \A i \in 1..Len(s) : s[i] \in Digits

\* the parts of s between occurrences of sep
RECURSIVE Split(_, _, _, _)
Split(s, sep, i, cur) ==
    IF i > Len(s) THEN <<cur>>
    ELSE IF s[i] = sep THEN <<cur>> \o Split(s, sep, i + 1, <<>>)
    ELSE Split(s, sep, i + 1, Append(cur, s[i]))

DaysIn(y, m) ==
    IF m \in {4, 6, 9, 11} THEN 30
    ELSE IF m = 2 THEN (IF y % 4 = 0 /\ (y % 100 # 0 \/ y % 400 = 0) THEN 29 ELSE 28)
    ELSE 31

MkDate(ys, ms, ds) ==
    LET y == DigitsValue(ys)
        m == DigitsValue(ms)
        d == DigitsValue(ds)
    IN  IF m \in 1..12 /\ d >= 1 /\ d <= DaysIn(y, m) /\ y >= 1
        THEN [y |-> y, m |-> m, d |-> d]
        ELSE NoDate

\* datetime.strptime(text, '%m/%d/%Y')
strptime(text) ==
    LET p == Split(text, "/", 1, <<>>)
    IN  IF /\ Len(p) = 3
           /\ Len(p[1]) \in 1..2 /\ AllDigits(p[1])
           /\ Len(p[2]) \in 1..2 /\ AllDigits(p[2])
           /\ Len(p[3]) = 4 /\ AllDigits(p[3])
        THEN MkDate(p[3], p[1], p[2])
        ELSE NoDate

\* dateutil.parser.parse(text), on the texts the model generates: an ISO
\* date YYYY-MM-DD is accepted, text without any date in it raises.
date_parser_parse(text) ==
    LET p == Split(text, "-", 1, <<>>)
    IN  IF /\ Len(p) = 3
           /\ Len(p[1]) = 4 /\ AllDigits(p[1])
           /\ Len(p[2]) = 2 /\ AllDigits(p[2])
           /\ Len(p[3]) = 2 /\ AllDigits(p[3])
        THEN MkDate(p[1], p[2], p[3])
        ELSE NoDate

\* lines 82-93 of process_csv: strict format, dateutil, then datetime.now()
PostingDate(cell, now) ==
    LET strict == strptime(Str(cell))
        loose == date_parser_parse(Str(cell))
    IN  IF strict # NoDate THEN strict
        ELSE IF loose # NoDate THEN loose
        ELSE now

\* line 91: the date failure is logged
DateFails(cell) == strptime(Str(cell)) = NoDate /\ date_parser_parse(Str(cell)) = NoDate

DateLess(a, b) ==
    \/ a.y < b.y
    \/ a.y = b.y /\ a.m < b.m
    \/ a.y = b.y /\ a.m = b.m /\ a.d < b.d

DigitChar(n) ==
    CASE n = 0 -> "0" [] n = 1 -> "1" [] n = 2 -> "2" [] n = 3 -> "3" [] n = 4 -> "4"
      [] n = 5 -> "5" [] n = 6 -> "6" [] n = 7 -> "7" [] n = 8 -> "8" [] n = 9 -> "9"

TwoDigits(n) == <<DigitChar((n \div 10) % 10), DigitChar(n % 10)>>

FourDigits(n) == TwoDigits(n \div 100) \o TwoDigits(n % 100)

\* dt.strftime('%Y-%m-%d')
FormatDate(dt) == FourDigits(dt.y) \o <<"-">> \o TwoDigits(dt.m) \o <<"-">> \o TwoDigits(dt.d)

\* the month-key "YYYY-MM" of a date
MonthKey(dt) == FourDigits(dt.y) \o <<"-">> \o TwoDigits(dt.m)

(***************************************************************************)
(* models.py                                                               *)
(***************************************************************************)
TransactionType ==
    {"DEBIT_CARD", "ACH_CREDIT", "ACH_DEBIT", "FEE_TRANSACTION",
     "CHECK_DEPOSIT", "MISC_DEBIT", "DEPOSIT"}

None == <<"<None>">>

expected_columns ==
    {"Details", "Posting Date", "Description", "Amount", "Type", "Balance", "Check or Slip #"}

(***************************************************************************)
(* CSVProcessor.process_csv                                                *)
(***************************************************************************)
kwCREDIT == <<"C", "R", "E", "D", "I", "T">>
kwACH_CREDIT == <<"A", "C", "H", "_", "C", "R", "E", "D", "I", "T">>
kwDSLIP == <<"D", "S", "L", "I", "P">>
kwCHECK == <<"C", "H", "E", "C", "K">>
kwDEPOSIT == <<"D", "E", "P", "O", "S", "I", "T">>
kwFEE == <<"F", "E", "E">>
kwACH_DEBIT == <<"A", "C", "H", "_", "D", "E", "B", "I", "T">>
kwDEBIT_CARD == <<"D", "E", "B", "I", "T", "_", "C", "A", "R", "D">>

IsPositive(amount) == amount.kind = "fin" /\ amount.coef > 0

IsNegative(amount) == amount.kind = "fin" /\ amount.coef < 0

\* Classify with the first test written amount >= 0: a zero amount is a credit
Classify_ZeroAsCredit(amount, details, type_str) ==
    IF amount.kind = "fin" /\ amount.coef >= 0
    THEN IF Contains(details, kwCREDIT) \/ Contains(type_str, kwACH_CREDIT) THEN "ACH_CREDIT"
         ELSE IF Contains(details, kwDSLIP) \/ Contains(type_str, kwCHECK) THEN "CHECK_DEPOSIT"
         ELSE "DEPOSIT"
    ELSE IF Contains(type_str, kwFEE) THEN "FEE_TRANSACTION"
         ELSE IF Contains(type_str, kwACH_DEBIT) THEN "ACH_DEBIT"
         ELSE IF Contains(type_str, kwDEBIT_CARD) THEN "DEBIT_CARD"
         ELSE "MISC_DEBIT"

\* Classify as the route of app.py has it: one chain that never reads the sign
Classify_IgnoringSign(amount, details, type_str) ==
    IF Contains(details, kwCREDIT) \/ Contains(type_str, kwACH_CREDIT) THEN "ACH_CREDIT"
    ELSE IF Contains(details, kwDSLIP) \/ Contains(type_str, kwCHECK) THEN "CHECK_DEPOSIT"
    ELSE IF Contains(type_str, kwFEE) THEN "FEE_TRANSACTION"
    ELSE IF Contains(type_str, kwACH_DEBIT) THEN "ACH_DEBIT"
    ELSE IF Contains(type_str, kwDEBIT_CARD) THEN "DEBIT_CARD"
    ELSE "MISC_DEBIT"

\* lines 99-117: the type of a row from its cleaned amount, Details and Type
Classify(amount, details, type_str) ==
    IF IsPositive(amount)
    THEN IF Contains(details, kwCREDIT) \/ Contains(type_str, kwACH_CREDIT) THEN "ACH_CREDIT"
         ELSE IF Contains(details, kwDSLIP) \/ Contains(type_str, kwCHECK) THEN "CHECK_DEPOSIT"
         ELSE IF Contains(type_str, kwDEPOSIT) THEN "DEPOSIT"
         ELSE "DEPOSIT"
    ELSE IF Contains(type_str, kwFEE) THEN "FEE_TRANSACTION"
         ELSE IF Contains(type_str, kwACH_DEBIT) THEN "ACH_DEBIT"
         ELSE IF Contains(type_str, kwDEBIT_CARD) THEN "DEBIT_CARD"
         ELSE "MISC_DEBIT"

\* lines 96-97
UpperOrBlank(cell) == IF IsNa(cell) THEN <<>> ELSE Upper(Str(cell))

\* The row body raises (and the handler at line 132 catches it) when the
\* cleaned amount is a NaN, which Decimal refuses to order at line 100, or
\* when Transaction refuses a non-finite amount or balance at line 121.
RowRaises(row) ==
    \/ clean_decimal(row["Amount"]).kind # "fin"
    \/ clean_decimal(row["Balance"]).kind # "fin"

\* lines 75-129: the Transaction built from one row
RowTransaction(row, now) ==
    LET amount == clean_decimal(row["Amount"])
        balance == clean_decimal(row["Balance"])
        details == UpperOrBlank(row["Details"])
        type_str == UpperOrBlank(row["Type"])
    IN  [details |-> details,
         posting_date |-> PostingDate(row["Posting Date"], now),
         description |-> Strip(Str(row["Description"])),
         amount |-> amount,
         transaction_type |-> Classify(amount, details, type_str),
         balance |-> balance,
         check_number |-> IF IsNa(row["Check or Slip #"]) THEN None
                          ELSE Str(row["Check or Slip #"])]

EmptyRun == [transactions |-> <<>>, rowErrors |-> <<>>, dateErrors |-> <<>>,
             schemaError |-> FALSE, ioError |-> FALSE]

\* OnRowError with the failure escaping the loop: what was collected is lost
OnRowError_Aborting(acc, idx) ==
    [acc EXCEPT !.rowErrors = Append(@, idx), !.transactions = <<>>]

\* lines 132-135: the row's error is logged and the loop continues
OnRowError(acc, idx) == [acc EXCEPT !.rowErrors = Append(@, idx)]

\* lines 72-135, one iteration of the loop over df.iterrows()
RowStep(acc, row, idx, now) ==
    LET logged == IF DateFails(row["Posting Date"]) /\ ~RowRaises(row)
                  THEN [acc EXCEPT !.dateErrors = Append(@, idx)]
                  ELSE acc
    IN  IF RowRaises(row) THEN OnRowError(logged, idx)
        ELSE [logged EXCEPT !.transactions = Append(@, RowTransaction(row, now))]

RECURSIVE RowLoop(_, _, _, _)
RowLoop(rows, i, now, acc) ==
    IF i > Len(rows) THEN acc
    ELSE RowLoop(rows, i + 1, now, RowStep(acc, rows[i], i - 1, now))

\* lines 65-69: every expected column is a column of the frame
ColumnsOk(df) == \A col \in expected_columns : col \in df.columns

\* CSVProcessor.process_csv on the frame pd.read_csv returned: what it
\* returns (transactions) and what it logs.  A path that is no file makes
\* read_csv raise, which line 144 catches.
process_csv_run(df, now) ==
    IF df.absent THEN [EmptyRun EXCEPT !.ioError = TRUE]
    ELSE IF ~ColumnsOk(df) THEN [EmptyRun EXCEPT !.schemaError = TRUE]
    ELSE RowLoop(df.rows, 1, now, EmptyRun)

(***************************************************************************)
(* Decimal arithmetic of the summaries.                                    *)
(***************************************************************************)
RECURSIVE Pow10(_)
Pow10(n) == IF n = 0 THEN 1 ELSE 10 * Pow10(n - 1)

\* a + b of two finite Decimals
DecAdd(a, b) ==
    LET e == IF a.exp > b.exp THEN a.exp ELSE b.exp
    IN  Norm(a.coef * Pow10(e - a.exp) + b.coef * Pow10(e - b.exp), e)

\* sum(t.amount for t in transactions if <test>), the test being
\* amount < 0 ("neg"), amount > 0 ("pos") or none ("all")
Keeps(test, amount) ==
    CASE test = "neg" -> IsNegative(amount)
      [] test = "pos" -> IsPositive(amount)
      [] OTHER -> TRUE

RECURSIVE SumAmounts(_, _)
SumAmounts(txs, test) ==
    IF Len(txs) = 0 THEN Zero
    ELSE LET rest == SumAmounts(Tail(txs), test)
         IN  IF Keeps(test, Head(txs).amount) THEN DecAdd(Head(txs).amount, rest) ELSE rest

RECURSIVE MinDate(_)
MinDate(txs) ==
    IF Len(txs) = 1 THEN txs[1].posting_date
    ELSE LET r == MinDate(Tail(txs))
         IN  IF DateLess(r, txs[1].posting_date) THEN r ELSE txs[1].posting_date

RECURSIVE MaxDate(_)
MaxDate(txs) ==
    IF Len(txs) = 1 THEN txs[1].posting_date
    ELSE LET r == MaxDate(Tail(txs))
         IN  IF DateLess(txs[1].posting_date, r) THEN r ELSE txs[1].posting_date

\* app.py lines 75-84 and 281-290: TransactionSummary of a non-empty list.
\* The average is kept as the exact quotient num / den.
Summarize(txs) ==
    [total_transactions |-> Len(txs),
     total_spent |-> SumAmounts(txs, "neg"),
     total_received |-> SumAmounts(txs, "pos"),
     average_transaction |-> [num |-> SumAmounts(txs, "all"), den |-> Len(txs)],
     date_range |-> FormatDate(MinDate(txs)) \o <<" ", "t", "o", " ">> \o FormatDate(MaxDate(txs))]

\* app.py lines 89 and 293: monthly_stats = {}
MonthlyStatsOf(txs) == [k \in {} |-> Zero]

\* app.py lines 86-90 and 296-300: DashboardData
Dashboard(txs) ==
    [transactions |-> txs, summary |-> Summarize(txs), monthly_stats |-> MonthlyStatsOf(txs)]

(***************************************************************************)
(* app.py, route /process-csv/<filename>: its own row loop.                *)
(***************************************************************************)
\* lines 236-237: Decimal(str(cell).replace('$', '').replace(',', ''))
RouteDecimal(cell) == DecimalOf(Remove(Remove(Str(cell), "$"), ","))

\* lines 246-257: the route's classification, which does not read the amount
RouteClassify(details, type_str) ==
    IF Contains(details, kwCREDIT) \/ Contains(type_str, kwACH_CREDIT) THEN "ACH_CREDIT"
    ELSE IF Contains(details, kwDSLIP) \/ Contains(type_str, kwCHECK) THEN "CHECK_DEPOSIT"
    ELSE IF Contains(type_str, kwFEE) THEN "FEE_TRANSACTION"
    ELSE IF Contains(type_str, kwACH_DEBIT) THEN "ACH_DEBIT"
    ELSE IF Contains(type_str, kwDEBIT_CARD) THEN "DEBIT_CARD"
    ELSE "MISC_DEBIT"

\* line 232: the row repeats the header
RouteSkips(row) == "Details" \in DOMAIN row /\ row["Details"] = <<"D", "e", "t", "a", "i", "l", "s">>

\* lines 230-273: the row body raises on a missing column (KeyError), on an
\* amount or balance Decimal refuses or Transaction refuses (not finite), or
\* on a date that is not MM/DD/YYYY
RouteRowRaises(row) ==
    \/ ~(expected_columns \subseteq DOMAIN row)
    \/ RouteDecimal(row["Amount"]).kind # "fin"
    \/ RouteDecimal(row["Balance"]).kind # "fin"
    \/ strptime(Str(row["Posting Date"])) = NoDate

RouteTransaction(row) ==
    LET details == Upper(Str(row["Details"]))
        type_str == Upper(Str(row["Type"]))
    IN  [details |-> details,
         posting_date |-> strptime(Str(row["Posting Date"])),
         description |-> Strip(Str(row["Description"])),
         amount |-> RouteDecimal(row["Amount"]),
         transaction_type |-> RouteClassify(details, type_str),
         balance |-> RouteDecimal(row["Balance"]),
         check_number |-> IF IsNa(row["Check or Slip #"]) THEN None
                          ELSE Str(row["Check or Slip #"])]

\* lines 228-273
RECURSIVE RouteLoop(_, _, _)
RouteLoop(rows, i, txs) ==
    IF i > Len(rows) THEN txs
    ELSE IF RouteSkips(rows[i]) \/ RouteRowRaises(rows[i]) THEN RouteLoop(rows, i + 1, txs)
    ELSE RouteLoop(rows, i + 1, Append(txs, RouteTransaction(rows[i])))

(***************************************************************************)
(* The upload directory and the parse cache.                               *)
(***************************************************************************)
FileNames == {"A.CSV", "B.CSV"}

NoFile == [columns |-> {}, rows |-> <<>>, raw |-> <<>>, absent |-> TRUE]

NoData == [transactions |-> <<>>, absent |-> TRUE]

\* datetime.now() at the calls the model makes
NowDates == {[y |-> 2026, m |-> 11, d |-> 2]}

Present == {f \in FileNames : uploads[f] # NoFile}

\* CSVProcessor.get_processed_files: the names in the directory, newest first
RECURSIVE NewestFirst(_)
NewestFirst(S) ==
    IF S = {} THEN <<>>
    ELSE LET f == CHOOSE x \in S : \A y \in S : mtime[y] <= mtime[x]
         IN  <<f>> \o NewestFirst(S \ {f})

get_processed_files == NewestFirst(Present)

\* CSVProcessor.process_csv: the list it returns
process_csv(df, now) == process_csv_run(df, now).transactions

\* lines 27-31 of load_all_transactions: the cache is filled when it is empty
FillCache(cache, now) ==
    IF DOMAIN cache = {}
    THEN [f \in Present |-> process_csv(uploads[f], now)]
    ELSE cache

\* dict.get(key, [])
Get(cache, f) == IF f \in DOMAIN cache THEN cache[f] ELSE <<>>

(***************************************************************************)
(* The frames pd.read_csv hands over (line 62): the columns of the header  *)
(* and the rows, each cell text or NA.                                     *)
(***************************************************************************)
MkRow(details, date, description, amount, type, balance, check) ==
    [c \in expected_columns |->
        CASE c = "Details" -> details
          [] c = "Posting Date" -> date
          [] c = "Description" -> description
          [] c = "Amount" -> amount
          [] c = "Type" -> type
          [] c = "Balance" -> balance
          [] c = "Check or Slip #" -> check]

\* str(n) of an int n >= 0
RECURSIVE NatText(_)
NatText(n) == IF n < 10 THEN <<DigitChar(n)>> ELSE NatText(n \div 10) \o <<DigitChar(n % 10)>>

\* the last w digits of n, zero-padded
RECURSIVE PadText(_, _)
PadText(n, w) == IF w = 0 THEN <<>> ELSE PadText(n \div 10, w - 1) \o <<DigitChar(n % 10)>>

\* str(v) of an int64 cell
IntStr(d) == IF d.coef < 0 THEN <<"-">> \o NatText(0 - d.coef) ELSE NatText(d.coef)

\* str(v) of a float64 cell: 42.0 prints "42.0", 7.5 prints "7.5"
FloatStr(d) ==
    LET mag == IF d.coef < 0 THEN 0 - d.coef ELSE d.coef
        sign == IF d.coef < 0 THEN <<"-">> ELSE <<>>
    IN  IF d.exp = 0 THEN sign \o NatText(mag) \o <<".", "0">>
        ELSE sign \o NatText(mag \div Pow10(d.exp)) \o <<".">> \o PadText(mag % Pow10(d.exp), d.exp)

\* the text is a number to pandas' parser: digits, a sign, at most one '.'
IsNumText(s) == Strip(s) = s /\ DecimalOf(s).kind = "fin"

\* the text is an integer to pandas' parser
IsIntText(s) == IsNumText(s) /\ DotAt(s, 1) = 0

\* pd.read_csv's type inference for one column (line 62, no dtype given),
\* cells being the column's cells in the file, blank ones NA.  A column with
\* a cell that is no number stays text.  A column of integers without a
\* blank becomes int64, any other column of numbers float64; a number cell
\* is kept as the text str() gives for it at lines 41, 85, 96 and 128.
ReadColumn(cells) ==
    LET n == Len(cells)
        filled == {i \in 1..n : ~IsNa(cells[i])}
    IN  IF \E i \in filled : ~IsNumText(cells[i]) THEN cells
        ELSE IF filled = 1..n /\ \A i \in filled : IsIntText(cells[i])
             THEN [i \in 1..n |-> IntStr(DecimalOf(cells[i]))]
        ELSE [i \in 1..n |-> IF IsNa(cells[i]) THEN NA ELSE FloatStr(DecimalOf(cells[i]))]

\* a file whose header names the columns cols and whose lines are rows (raw),
\* with the frame pd.read_csv reads from it (rows)
MkFrame(cols, rows) ==
    LET raw == [i \in 1..Len(rows) |-> [c \in cols |-> rows[i][c]]]
        column == [c \in cols |-> ReadColumn([i \in 1..Len(raw) |-> raw[i][c]])]
    IN  [columns |-> cols,
         rows |-> [i \in 1..Len(raw) |-> [c \in cols |-> column[c][i]]],
         raw |-> raw,
         absent |-> FALSE]

SeqsUpTo(S, n) == UNION {[1..k -> S] : k \in 0..n}

Headers == {expected_columns, expected_columns \ {"Balance"}}

RowMarchCard ==
    MkRow(<<"D", "E", "B", "I", "T">>,
          <<"0", "3", "/", "0", "5", "/", "2", "0", "2", "4">>,
          <<"s", "h", "o", "p">>,
          <<"-", "2", "0", ".", "0", "0">>,
          <<"D", "E", "B", "I", "T", "_", "C", "A", "R", "D">>,
          <<"1", "0", "0", ".", "0", "0">>,
          NA)

RowMarchDebit ==
    MkRow(<<"D", "E", "B", "I", "T">>,
          <<"0", "3", "/", "2", "0", "/", "2", "0", "2", "4">>,
          <<"s", "h", "o", "p">>,
          <<"-", "3", "0", ".", "0", "0">>,
          NA,
          <<"1", "0", "0", ".", "0", "0">>,
          NA)

RowAprilCredit ==
    MkRow(<<"C", "R", "E", "D", "I", "T">>,
          <<"0", "4", "/", "0", "2", "/", "2", "0", "2", "4">>,
          <<"s", "h", "o", "p">>,
          <<"1", "0", "0", ".", "0", "0">>,
          <<"A", "C", "H", "_", "C", "R", "E", "D", "I", "T">>,
          <<"1", "0", "0", ".", "0", "0">>,
          NA)

RowIsoSlip ==
    MkRow(<<"D", "S", "L", "I", "P">>,
          <<"2", "0", "2", "4", "-", "0", "4", "-", "0", "2">>,
          <<"s", "h", "o", "p">>,
          <<"4", "2", ".", "0", "0">>,
          NA,
          <<"1", "0", "0", ".", "0", "0">>,
          <<"0", "0", "4", "2">>)

RowBadDate ==
    MkRow(<<"D", "E", "B", "I", "T">>,
          <<"x", "x">>,
          <<"s", "h", "o", "p">>,
          <<"-", "5", ".", "0", "0">>,
          NA,
          <<"1", "0", "0", ".", "0", "0">>,
          NA)

RowNoDate ==
    MkRow(<<"D", "E", "B", "I", "T">>,
          NA,
          <<"s", "h", "o", "p">>,
          <<"7", ".", "5", "0">>,
          NA,
          <<"1", "0", "0", ".", "0", "0">>,
          NA)

RowNanAmount ==
    MkRow(<<"D", "E", "B", "I", "T">>,
          <<"0", "3", "/", "0", "5", "/", "2", "0", "2", "4">>,
          <<"s", "h", "o", "p">>,
          <<"s", "N", "a", "N">>,
          NA,
          <<"1", "0", "0", ".", "0", "0">>,
          NA)

RowTextAmount ==
    MkRow(<<"D", "E", "B", "I", "T">>,
          <<"0", "3", "/", "2", "0", "/", "2", "0", "2", "4">>,
          <<"s", "h", "o", "p">>,
          <<"a", "b", "c">>,
          NA,
          <<"1", "0", "0", ".", "0", "0">>,
          NA)

ParseRows ==
    {RowMarchCard, RowMarchDebit, RowAprilCredit, RowIsoSlip, RowBadDate,
      RowNoDate, RowNanAmount, RowTextAmount}

\* the files of the parsing specification: every header, up to MaxRows rows
ParseFrames == {MkFrame(cols, rows) : cols \in Headers, rows \in SeqsUpTo(ParseRows, MaxRows)}

\* the files of the classification specification: one row, every combination
\* of Details, Type and Amount text
ClassifyDetails == {NA, <<"D", "S", "L", "I", "P">>, <<"c", "r", "e", "d", "i", "t">>, <<"d", "e", "b", "i", "t", " ", "s", "l", "i", "p">>}

ClassifyTypes ==
    {NA, <<"A", "C", "H", "_", "C", "R", "E", "D", "I", "T">>,
     <<"A", "C", "H", "_", "D", "E", "B", "I", "T">>,
     <<"C", "H", "E", "C", "K", "_", "D", "E", "P", "O", "S", "I", "T">>,
     <<"F", "E", "E", "_", "T", "R", "A", "N", "S", "A", "C", "T", "I", "O", "N">>,
     <<"D", "E", "B", "I", "T", "_", "C", "A", "R", "D">>,
     <<"D", "E", "P", "O", "S", "I", "T">>,
     <<"M", "I", "S", "C", "_", "D", "E", "B", "I", "T">>}

ClassifyAmounts == {<<"4", "2", ".", "0", "0">>, <<"-", "4", "2", ".", "0", "0">>, <<"0">>, <<"a", "b", "c">>}

ClassifyDates == {<<"0", "3", "/", "0", "5", "/", "2", "0", "2", "4">>, <<"x", "x">>}

ClassifyFrames ==
    {MkFrame(expected_columns, <<MkRow(d, dt, <<"s", "h", "o", "p">>, a, t, <<"1", "0", "0", ".", "0", "0">>, NA)>>) :
        d \in ClassifyDetails, dt \in ClassifyDates, a \in ClassifyAmounts, t \in ClassifyTypes}

\* the files a user uploads in the application specification
UploadFrames ==
    {MkFrame(expected_columns, <<RowMarchCard, RowMarchDebit, RowAprilCredit>>),
     MkFrame(expected_columns, <<>>),
     MkFrame(expected_columns \ {"Balance"}, <<RowAprilCredit>>),
     MkFrame(expected_columns, <<RowBadDate>>),
     MkFrame(expected_columns, <<RowNanAmount>>)}

\* the files of the check-number specification: up to MaxRows well-formed
\* rows, every combination of 'Check or Slip #' cells
CheckCells == {NA, <<"0", "0", "4", "2">>, <<"1", "2", "-", "3", "4", "5">>, <<",">>, <<",", ",">>}

CheckFrames ==
    {MkFrame(expected_columns,
             [i \in 1..Len(cs) |-> [RowMarchCard EXCEPT !["Check or Slip #"] = cs[i]]]) :
        cs \in SeqsUpTo(CheckCells, MaxRows)}

\* the raw texts handed to clean_decimal in its own specification
DecimalChars == {"$", ",", "(", ")", "-", ".", "1", "0", " ", "x"}

DecimalInputs == {NA} \cup SeqsUpTo(DecimalChars, MaxLen)

(***************************************************************************)
(* State machine.                                                          *)
(***************************************************************************)
NoResult == [called |-> FALSE, file |-> "", ret |-> <<>>]

NoResponse == [route |-> "", to |-> "", file |-> ""]

NotCalled == [kind |-> "none"]

Idle ==
    /\ cachedData = [f \in {} |-> <<>>]
    /\ result = NoResult
    /\ log = EmptyRun
    /\ session = NoData
    /\ response = NoResponse

\* the application starts on an empty upload directory
Init ==
    /\ uploads = [f \in FileNames |-> NoFile]
    /\ mtime = [f \in FileNames |-> 0]
    /\ clock = 0
    /\ Idle
    /\ decIn = NA
    /\ decOut = NotCalled

\* the application starts on a directory that holds the file A.CSV
InitWith(frames) ==
    /\ \E df \in frames : uploads = [f \in FileNames |-> IF f = "A.CSV" THEN df ELSE NoFile]
    /\ mtime = [f \in FileNames |-> IF f = "A.CSV" THEN 1 ELSE 0]
    /\ clock = 1
    /\ Idle
    /\ decIn = NA
    /\ decOut = NotCalled

InitParse == InitWith(ParseFrames)

InitClassify == InitWith(ClassifyFrames)

InitCheck == InitWith(CheckFrames)

InitDecimal ==
    /\ uploads = [f \in FileNames |-> NoFile]
    /\ mtime = [f \in FileNames |-> 0]
    /\ clock = 0
    /\ Idle
    /\ decIn \in DecimalInputs
    /\ decOut = NotCalled

\* app.py upload(), POST: file.save(filepath) writes or overwrites the file
Upload(f, df) ==
    /\ clock < MaxClock
    /\ uploads' = [uploads EXCEPT ![f] = df]
    /\ mtime' = [mtime EXCEPT ![f] = clock + 1]
    /\ clock' = clock + 1
    /\ response' = [route |-> "upload", to |-> "map_headers", file |-> f]
    /\ UNCHANGED <<cachedData, result, log, session, decIn, decOut>>

\* CSVProcessor.load_all_transactions
LoadAllTransactions(now) ==
    /\ cachedData' = FillCache(cachedData, now)
    /\ response' = [route |-> "load_all_transactions", to |-> "", file |-> ""]
    /\ UNCHANGED <<uploads, mtime, clock, result, log, session, decIn, decOut>>

\* app.py home()
Home(now) ==
    LET processed_files == get_processed_files
        latest_file == processed_files[1]
        cache == FillCache(cachedData, now)
        transactions == Get(cache, latest_file)
    IN  /\ IF processed_files = <<>>
           THEN /\ response' = [route |-> "home", to |-> "upload", file |-> ""]
                /\ UNCHANGED <<cachedData, session>>
           ELSE /\ cachedData' = cache
                /\ IF transactions # <<>>
                   THEN /\ session' = Dashboard(transactions)
                        /\ response' = [route |-> "home", to |-> "dashboard", file |-> latest_file]
                   ELSE /\ session' = session
                        /\ response' = [route |-> "home", to |-> "upload", file |-> latest_file]
        /\ UNCHANGED <<uploads, mtime, clock, result, log, decIn, decOut>>

\* app.py process_csv(filename), the route /process-csv/<filename>
RouteProcessCsv(f) ==
    LET transactions == RouteLoop(uploads[f].rows, 1, <<>>)
    IN  /\ IF uploads[f] = NoFile \/ transactions = <<>>
           THEN /\ session' = session
                /\ response' = [route |-> "process_csv", to |-> "upload", file |-> f]
           ELSE /\ session' = Dashboard(transactions)
                /\ response' = [route |-> "process_csv", to |-> "dashboard", file |-> f]
        /\ UNCHANGED <<uploads, mtime, clock, cachedData, result, log, decIn, decOut>>

\* a call of CSVProcessor.process_csv(mapping_dir / f)
CallProcessCsv(f, now) ==
    LET run == process_csv_run(uploads[f], now)
    IN  /\ result' = [called |-> TRUE, file |-> f, ret |-> run.transactions]
        /\ log' = [run EXCEPT !.transactions = <<>>]
        /\ UNCHANGED <<uploads, mtime, clock, cachedData, session, response, decIn, decOut>>

\* a call of CSVProcessor.clean_decimal(decIn)
CallCleanDecimal ==
    /\ decOut = NotCalled
    /\ decOut' = clean_decimal(decIn)
    /\ UNCHANGED <<uploads, mtime, clock, cachedData, result, log, session, response, decIn>>

Next ==
    \/ \E f \in FileNames, df \in UploadFrames : Upload(f, df)
    \/ \E now \in NowDates : LoadAllTransactions(now)
    \/ \E now \in NowDates : Home(now)
    \/ \E f \in FileNames : RouteProcessCsv(f)

NextParse ==
    \/ \E f \in FileNames, now \in NowDates : CallProcessCsv(f, now)
    \/ \E now \in NowDates : LoadAllTransactions(now)
    \/ \E now \in NowDates : Home(now)
    \/ \E f \in FileNames : RouteProcessCsv(f)

NextDecimal == CallCleanDecimal

\* the web application: uploads, the cache and the two summarising routes
Spec == Init /\ [][Next]_vars

\* parsing one file of up to MaxRows rows
SpecParse == InitParse /\ [][NextParse]_vars

\* parsing one row, over every combination of its classifying cells
SpecClassify == InitClassify /\ [][NextParse]_vars

\* parsing files that differ in their 'Check or Slip #' cells
SpecCheck == InitCheck /\ [][NextParse]_vars

\* clean_decimal over every raw text of up to MaxLen characters
SpecDecimal == InitDecimal /\ [][NextDecimal]_vars

(***************************************************************************)
(* Properties.                                                             *)
(***************************************************************************)
\* the frame the last process_csv call read
CalledFrame == uploads[result.file]

\* the call read a file with a valid header
CalledValid == result.called /\ ~CalledFrame.absent /\ ColumnsOk(CalledFrame)

\* the amount and balance cells of the row clean to finite decimals
CellsWellFormed(row) ==
    /\ clean_decimal(row["Amount"]).kind = "fin"
    /\ clean_decimal(row["Balance"]).kind = "fin"

\* the date a cell holds, NoDate when neither parser accepts it
ParsedDate(cell) ==
    IF strptime(Str(cell)) # NoDate THEN strptime(Str(cell)) ELSE date_parser_parse(Str(cell))

BadDateRows(df) == {i \in 1..Len(df.rows) : ParsedDate(df.rows[i]["Posting Date"]) = NoDate}

\* C1: when the rows of a valid file are well-formed except for k rows with
\* an unparseable Posting Date, process_csv returns N - k transactions, each
\* dated by a parseable date cell of the file, and logs the k rows as row
\* failures.
C1_UnparseableDateExcluded ==
    LET df == CalledFrame
        bad == BadDateRows(df)
    IN  (CalledValid /\ \A i \in 1..Len(df.rows) : CellsWellFormed(df.rows[i]))
        => /\ Len(result.ret) = Len(df.rows) - Cardinality(bad)
           /\ \A k \in 1..Len(result.ret) :
                \E i \in (1..Len(df.rows)) \ bad :
                    result.ret[k].posting_date = ParsedDate(df.rows[i]["Posting Date"])
           /\ \A i \in bad : \E k \in 1..Len(log.rowErrors) : log.rowErrors[k] = i - 1

TypeText ==
    [t \in TransactionType |->
        CASE t = "DEBIT_CARD" -> <<"D", "E", "B", "I", "T", "_", "C", "A", "R", "D">>
          [] t = "ACH_CREDIT" -> <<"A", "C", "H", "_", "C", "R", "E", "D", "I", "T">>
          [] t = "ACH_DEBIT" -> <<"A", "C", "H", "_", "D", "E", "B", "I", "T">>
          [] t = "FEE_TRANSACTION" -> <<"F", "E", "E", "_", "T", "R", "A", "N", "S", "A", "C", "T", "I", "O", "N">>
          [] t = "CHECK_DEPOSIT" -> <<"C", "H", "E", "C", "K", "_", "D", "E", "P", "O", "S", "I", "T">>
          [] t = "MISC_DEBIT" -> <<"M", "I", "S", "C", "_", "D", "E", "B", "I", "T">>
          [] t = "DEPOSIT" -> <<"D", "E", "P", "O", "S", "I", "T">>]

\* the call read a one-row file and emitted that row's transaction
OneRowEmitted == CalledValid /\ Len(CalledFrame.rows) = 1 /\ Len(result.ret) = 1

\* C2: a row whose Type cell is exactly a TransactionType code is emitted
\* with that code as its transaction_type, whatever its Details and amount.
C2_ExplicitCodeWins ==
    OneRowEmitted =>
        \A t \in TransactionType :
            CalledFrame.rows[1]["Type"] = TypeText[t] => result.ret[1].transaction_type = t

\* C3: a row with a blank Type and DSLIP in its Details is emitted as
\* CHECK_DEPOSIT, whatever its amount.
C3_DslipIsCheckDeposit ==
    (/\ OneRowEmitted
     /\ IsNa(CalledFrame.rows[1]["Type"])
     /\ ~IsNa(CalledFrame.rows[1]["Details"])
     /\ Contains(CalledFrame.rows[1]["Details"], kwDSLIP))
    => result.ret[1].transaction_type = "CHECK_DEPOSIT"

BlankTypeAndDetails ==
    /\ OneRowEmitted
    /\ IsNa(CalledFrame.rows[1]["Type"])
    /\ IsNa(CalledFrame.rows[1]["Details"])

\* C4: a row with blank Type and blank Details is emitted as DEPOSIT when
\* its amount is positive and as MISC_DEBIT when it is negative or zero.
C4_SignTiebreak ==
    BlankTypeAndDetails =>
        result.ret[1].transaction_type =
            IF result.ret[1].amount.coef > 0 THEN "DEPOSIT" ELSE "MISC_DEBIT"

\* C4 witness: a blank row with a positive amount has been classified
C4_Witness ==
    /\ BlankTypeAndDetails
    /\ result.ret[1].amount.coef > 0
    /\ result.ret[1].transaction_type = "DEPOSIT"

\* C5: what process_csv returns for a file whose header lacks a required
\* column differs from what it returns for a file with a valid header and
\* no valid row, so that the caller can tell SchemaMismatch from EmptyResult.
C5_SchemaMismatchDistinct ==
    (result.called /\ ~CalledFrame.absent /\ ~ColumnsOk(CalledFrame))
    => \A now \in NowDates : result.ret # process_csv(MkFrame(expected_columns, <<>>), now)

\* the normalizer as specified: missing is zero; currency symbols and
\* thousands separators go; a parenthesized value is negative; every other
\* character than a digit, '.' and '-' goes; what still does not convert is zero
parse_amount(raw) ==
    IF IsNa(raw) THEN Zero
    ELSE LET stripped == Strip(Remove(Remove(raw, "$"), ","))
             signed == IF StartsWith(stripped, "(") /\ EndsWith(stripped, ")")
                       THEN <<"-">> \o SubSeq(stripped, 2, Len(stripped) - 1)
                       ELSE stripped
             kept == SelectSeq(signed, LAMBDA c : c \in Digits \cup {".", "-"})
             d == DecimalOf(kept)
         IN  IF d.kind = "fin" THEN d ELSE Zero

\* C6: clean_decimal returns what the specified normalizer returns.
C6_AgreesWithNormalizer == decOut # NotCalled => decOut = parse_amount(decIn)

\* the indices of the rows whose cells are well-formed, in source order
RECURSIVE GoodRows(_, _)
GoodRows(rows, i) ==
    IF i > Len(rows) THEN <<>>
    ELSE IF CellsWellFormed(rows[i]) THEN <<i>> \o GoodRows(rows, i + 1)
    ELSE GoodRows(rows, i + 1)

\* the indices of the rows the route's loop neither skips nor fails on
RECURSIVE RouteGoodRows(_, _)
RouteGoodRows(rows, i) ==
    IF i > Len(rows) THEN <<>>
    ELSE IF RouteSkips(rows[i]) \/ RouteRowRaises(rows[i]) THEN RouteGoodRows(rows, i + 1)
    ELSE <<i>> \o RouteGoodRows(rows, i + 1)

C8_CacheNeverStale ==
    response.route = "load_all_transactions" =>
        /\ DOMAIN cachedData = Present
        /\ \A f \in Present : \E now \in NowDates : cachedData[f] = process_csv(uploads[f], now)

\* the transactions a summarising route has just parsed from its file
Parsed ==
    IF response.route = "home" THEN Get(cachedData, response.file)
    ELSE RouteLoop(uploads[response.file].rows, 1, <<>>)

\* a summarising route has just handled a file of the upload directory
Summarised ==
    /\ response.route \in {"home", "process_csv"}
    /\ response.file \in Present

\* C9: the route hands over a summary of the collection it parsed, with
\* total_transactions its length, also when the collection is empty.
C9_SummaryForEveryCollection ==
    Summarised =>
        /\ session # NoData
        /\ session.transactions = Parsed
        /\ session.summary.total_transactions = Len(Parsed)

MonthsOf(txs) == {MonthKey(txs[k].posting_date) : k \in 1..Len(txs)}

\* C10: monthly_stats has one key per month in which a transaction posted,
\* and the entry's transaction_count is the number of that month's
\* transactions.
C10_MonthlyBreakdown ==
    session # NoData =>
        /\ DOMAIN session.monthly_stats = MonthsOf(session.transactions)
        /\ \A m \in DOMAIN session.monthly_stats :
             session.monthly_stats[m].transaction_count =
                Cardinality({k \in 1..Len(session.transactions) :
                                MonthKey(session.transactions[k].posting_date) = m})

CreditTypes == {"ACH_CREDIT", "CHECK_DEPOSIT", "DEPOSIT"}

DebitTypes == {"FEE_TRANSACTION", "ACH_DEBIT", "DEBIT_CARD", "MISC_DEBIT"}

\* C12: every transaction process_csv emits has a credit type when its
\* amount is positive and a debit type when its amount is negative or zero,
\* whatever the Details and Type text of its row.
C12_TypeMatchesSign ==
    result.called =>
        \A k \in 1..Len(result.ret) :
            result.ret[k].transaction_type \in
                (IF result.ret[k].amount.coef > 0 THEN CreditTypes ELSE DebitTypes)

\* C12 witness: a row whose Type is the code ACH_CREDIT and whose amount
\* text was absorbed to zero has been emitted
C12_Witness ==
    /\ OneRowEmitted
    /\ CalledFrame.rows[1]["Type"] = TypeText["ACH_CREDIT"]
    /\ CalledFrame.rows[1]["Amount"] = <<"a", "b", "c">>
    /\ result.ret[1].amount = Zero

AbsentCheckCells == {NA, <<",">>, <<",", ",">>}

\* C11: for every row of a valid file, the emitted check_number is the text
\* of the row's 'Check or Slip #' cell in the file, and None when that cell
\* is empty, "," or ",,".
C11_CheckNumberRoundTrips ==
    (CalledValid /\ Len(result.ret) = Len(CalledFrame.raw)) =>
        \A i \in 1..Len(CalledFrame.raw) :
            LET cell == CalledFrame.raw[i]["Check or Slip #"]
            IN  result.ret[i].check_number =
                    IF cell \in AbsentCheckCells THEN None ELSE cell

====
